---- MODULE Spec2Model ----
(***************************************************************************)
(* A model of rojo's project loader (src/project.rs): Project::locate,     *)
(* Project::load_fuzzy, Project::load_exact, Project::load_from_slice,     *)
(* the serde schema of Project and ProjectNode, and                        *)
(* ProjectNode::validate_reserved_names.                                   *)
(*                                                                         *)
(* Strings the code inspects (file names, JSON keys) are sequences of      *)
(* chunks, so that ends_with and starts_with are computed and not looked   *)
(* up.  A JSON document is a tree of values; parsing it is a conversion    *)
(* to the typed Project record and can fail.                               *)
(***************************************************************************)
EXTENDS Integers, Sequences, FiniteSets, TLC

VARIABLES fs, pc, op, arg, located, contents, result, log, nread

vars == <<fs, pc, op, arg, located, contents, result, log, nread>>

(***************************************************************************)
(* Bounds: the number of key/value entries (at every depth together) of a  *)
(* JSON document handed to load_from_slice or read by load_exact, and of a *)
(* document found in a file while the filesystem changes underneath.       *)
(***************************************************************************)
MaxEntries == 4

MaxFileEntries == 2

(***************************************************************************)
(* JSON values.                                                            *)
(***************************************************************************)
EmptyMap == <<>>

JStr(s) == [t |-> "str", s |-> s, n |-> 0, m |-> EmptyMap]

JNum(n) == [t |-> "num", s |-> "", n |-> n, m |-> EmptyMap]

JTrue == [t |-> "true", s |-> "", n |-> 0, m |-> EmptyMap]

JFalse == [t |-> "false", s |-> "", n |-> 0, m |-> EmptyMap]

JNull == [t |-> "null", s |-> "", n |-> 0, m |-> EmptyMap]

JObj(m) == [t |-> "obj", s |-> "", n |-> 0, m |-> m]

(***************************************************************************)
(* Keys.  The top-level keys are the camelCase names of Project's fields,  *)
(* the node keys are the serde renames of ProjectNode's fields.            *)
(***************************************************************************)
KName == <<"name">>

KTree == <<"tree">>

KServePort == <<"serve", "Port">>

KServePlaceIds == <<"serve", "Place", "Ids">>

KFoo == <<"foo">>

KClassName == <<"$", "className">>

KProperties == <<"$", "properties">>

KIgnoreUnknownInstances == <<"$", "ignoreUnknownInstances">>

KPath == <<"$", "path">>

KDollarFoo == <<"$", "foo">>

KChildA == <<"a">>

KAnchored == <<"Anchored">>

ProjectFields == {KName, KTree, KServePort, KServePlaceIds}

NodeFields == {KClassName, KProperties, KIgnoreUnknownInstances, KPath}

\* The keys the documents of the model are written with.
TopKeys == ProjectFields \cup {KFoo}

ChildNames == {KDollarFoo, KChildA}

NodeKeys == NodeFields \cup ChildNames

PropKeys == {KAnchored}

U16Max == 65535

\* The values other than objects a key is given in the documents of the model.
Scalars(k) ==
    CASE k = KName -> {JStr("Demo"), JNum(1)}
      [] k = KTree -> {JNum(1)}
      [] k = KServePort -> {JNum(8080), JNum(U16Max + 1)}
      [] k = KServePlaceIds -> {JNull}
      [] k = KFoo -> {JNum(1)}
      [] k = KClassName -> {JStr("Folder"), JNum(1)}
      [] k = KPath -> {JStr("src")}
      [] k = KIgnoreUnknownInstances -> {JTrue, JFalse}
      [] k = KProperties -> {}
      [] k = KAnchored -> {JTrue}
      [] OTHER -> {JNum(1)}

\* The keys of the object a key is given as its value, where it is given one.
InnerKeys(k) ==
    CASE k = KTree -> NodeKeys
      [] k \in ChildNames -> NodeKeys
      [] k = KProperties -> PropKeys
      [] OTHER -> {}

TakesObject(k) == k = KTree \/ k \in ChildNames \/ k = KProperties

RECURSIVE Maps(_, _)

\* The values of key k that hold n entries below them.
Vals(k, n) ==
    (IF n = 0 THEN Scalars(k) ELSE {})
        \cup (IF TakesObject(k) THEN {JObj(m) : m \in Maps(InnerKeys(k), n)} ELSE {})

\* The maps over a subset of keys that hold n entries, nested ones included.
Maps(keys, n) ==
    IF keys = {} THEN (IF n = 0 THEN {EmptyMap} ELSE {})
    ELSE LET k == CHOOSE kk \in keys : TRUE
             rest == keys \ {k}
         IN  Maps(rest, n)
                 \cup UNION {UNION {{(k :> v) @@ m : m \in Maps(rest, n - 1 - i)}
                                       : v \in Vals(k, i)} : i \in 0 .. (n - 1)}

\* The JSON documents of at most n entries: objects, and one that is no object.
JsonDocs(n) == {JNum(1)} \cup UNION {{JObj(m) : m \in Maps(TopKeys, i)} : i \in 0 .. n}

(***************************************************************************)
(* What a file holds, or a byte slice: bytes that are not UTF-8, text that *)
(* is not JSON, or a JSON document.                                        *)
(***************************************************************************)
Binary == [form |-> "binary", json |-> JNull]

Garbage == [form |-> "garbage", json |-> JNull]

Json(v) == [form |-> "json", json |-> v]

Contents(n) == {Binary, Garbage} \cup {Json(v) : v \in JsonDocs(n)}

SliceContents == Contents(MaxEntries)

FileContents == Contents(MaxFileEntries)

NoContents == [form |-> "none", json |-> JNull]

(***************************************************************************)
(* Option values and the typed records serde builds.                       *)
(***************************************************************************)
NoString == [some |-> FALSE, v |-> ""]

SomeString(s) == [some |-> TRUE, v |-> s]

NoBool == [some |-> FALSE, v |-> FALSE]

SomeBool(b) == [some |-> TRUE, v |-> b]

NoInt == [some |-> FALSE, v |-> 0]

SomeInt(i) == [some |-> TRUE, v |-> i]

\* PathBuf: absolute or relative, and its normal components (each a name).
PathOf(abs, comps) == [abs |-> abs, comps |-> comps]

\* PathBuf::default(), what #[serde(skip)] leaves in file_location.
UnsetPath == PathOf(FALSE, <<>>)

\* ProjectNode::default()
DefaultNode ==
    [class_name |-> NoString, children |-> EmptyMap, properties |-> EmptyMap,
     ignore_unknown_instances |-> NoBool, path |-> NoString]

Fail(v) == [ok |-> FALSE, val |-> v]

Done(v) == [ok |-> TRUE, val |-> v]

\* Option<String> and Option<bool> of a key: absent or null is None.
OptionString(m, k) ==
    IF k \notin DOMAIN m \/ m[k].t = "null" THEN Done(NoString)
    ELSE IF m[k].t = "str" THEN Done(SomeString(m[k].s))
    ELSE Fail(NoString)

\* A changed OptionBool: false is taken for no value.
OptionBool_FalseIsUnset(m, k) ==
    IF k \notin DOMAIN m \/ m[k].t \in {"null", "false"} THEN Done(NoBool)
    ELSE IF m[k].t = "true" THEN Done(SomeBool(TRUE))
    ELSE Fail(NoBool)

OptionBool(m, k) ==
    IF k \notin DOMAIN m \/ m[k].t = "null" THEN Done(NoBool)
    ELSE IF m[k].t \in {"true", "false"} THEN Done(SomeBool(m[k].t = "true"))
    ELSE Fail(NoBool)

\* Option<u16>
OptionU16(m, k) ==
    IF k \notin DOMAIN m \/ m[k].t = "null" THEN Done(NoInt)
    ELSE IF m[k].t = "num" /\ m[k].n >= 0 /\ m[k].n <= U16Max THEN Done(SomeInt(m[k].n))
    ELSE Fail(NoInt)

\* Option<HashSet<u64>>: the documents of the model give it as null only.
OptionPlaceIds(m, k) ==
    IF k \notin DOMAIN m \/ m[k].t = "null" THEN Done(NoInt) ELSE Fail(NoInt)

\* HashMap<String, UnresolvedRbxValue>, #[serde(default)]: the raw values are kept.
PropertyMap(m, k) ==
    IF k \notin DOMAIN m THEN Done(EmptyMap)
    ELSE IF m[k].t = "obj"
              /\ \A p \in DOMAIN m[k].m : m[k].m[p].t \in {"str", "num", "true", "false"}
         THEN Done(m[k].m)
    ELSE Fail(EmptyMap)

RECURSIVE DeserializeNode(_)

\* #[derive(Deserialize)] of ProjectNode: the four renamed fields, and every
\* other key flattened into children, each value a ProjectNode again.
DeserializeNode(j) ==
    IF j.t # "obj" THEN Fail(DefaultNode)
    ELSE LET m == j.m
             cn == OptionString(m, KClassName)
             pr == PropertyMap(m, KProperties)
             ig == OptionBool(m, KIgnoreUnknownInstances)
             pa == OptionString(m, KPath)
             kids == [k \in (DOMAIN m) \ NodeFields |-> DeserializeNode(m[k])]
         IN  IF cn.ok /\ pr.ok /\ ig.ok /\ pa.ok /\ \A k \in DOMAIN kids : kids[k].ok
             THEN Done([class_name |-> cn.val,
                        children |-> [k \in DOMAIN kids |-> kids[k].val],
                        properties |-> pr.val,
                        ignore_unknown_instances |-> ig.val,
                        path |-> pa.val])
             ELSE Fail(DefaultNode)

DefaultProject ==
    [name |-> "", tree |-> DefaultNode, serve_port |-> NoInt,
     serve_place_ids |-> NoInt, file_location |-> UnsetPath]

\* A changed DeserializeProject: without deny_unknown_fields.
DeserializeProject_OpenSchema(j) ==
    IF j.t # "obj" THEN Fail(DefaultProject)
    ELSE LET m == j.m
             tr == IF KTree \in DOMAIN m THEN DeserializeNode(m[KTree]) ELSE Fail(DefaultNode)
             sp == OptionU16(m, KServePort)
             ids == OptionPlaceIds(m, KServePlaceIds)
         IN  IF /\ KName \in DOMAIN m
                /\ m[KName].t = "str"
                /\ tr.ok /\ sp.ok /\ ids.ok
             THEN Done([name |-> m[KName].s, tree |-> tr.val, serve_port |-> sp.val,
                        serve_place_ids |-> ids.val, file_location |-> UnsetPath])
             ELSE Fail(DefaultProject)

\* #[derive(Deserialize)] of Project with deny_unknown_fields and camelCase
\* names: name and tree are required, file_location is skipped.
DeserializeProject(j) ==
    IF j.t # "obj" THEN Fail(DefaultProject)
    ELSE LET m == j.m
             tr == IF KTree \in DOMAIN m THEN DeserializeNode(m[KTree]) ELSE Fail(DefaultNode)
             sp == OptionU16(m, KServePort)
             ids == OptionPlaceIds(m, KServePlaceIds)
         IN  IF /\ DOMAIN m \subseteq ProjectFields
                /\ KName \in DOMAIN m
                /\ m[KName].t = "str"
                /\ tr.ok /\ sp.ok /\ ids.ok
             THEN Done([name |-> m[KName].s, tree |-> tr.val, serve_port |-> sp.val,
                        serve_place_ids |-> ids.val, file_location |-> UnsetPath])
             ELSE Fail(DefaultProject)

\* serde_json::from_slice: the bytes must be UTF-8 and well-formed JSON first.
from_slice(c) == IF c.form = "json" THEN DeserializeProject(c.json) ELSE Fail(DefaultProject)

\* serde_json::from_str on text already read.
from_str(c) == from_slice(c)

(***************************************************************************)
(* Reserved names.                                                         *)
(***************************************************************************)
\* The order BTreeMap<String, _> iterates the child names of the model in:
\* '$' sorts before every letter.
SortedNames == <<KDollarFoo, KChildA>>

WarnReserved == [msg |-> "reserved", key |-> <<>>]

WarnRename(name) == [msg |-> "rename", key |-> name]

\* str::starts_with('$')
StartsWithDollar(name) == Len(name) > 0 /\ Head(name) = "$"

RECURSIVE validate_reserved_names(_)

\* A changed validate_reserved_names: it does not go below a reserved name.
validate_reserved_names_Shallow(node) ==
    LET RECURSIVE Loop(_)
        Loop(i) ==
            IF i > Len(SortedNames) THEN <<>>
            ELSE LET name == SortedNames[i]
                 IN  (IF name \in DOMAIN node.children
                      THEN (IF StartsWithDollar(name)
                            THEN <<WarnReserved, WarnRename(name)>>
                            ELSE validate_reserved_names(node.children[name]))
                      ELSE <<>>)
                         \o Loop(i + 1)
    IN  Loop(1)

\* The log lines validate_reserved_names writes, in order.
validate_reserved_names(node) ==
    LET RECURSIVE Loop(_)
        Loop(i) ==
            IF i > Len(SortedNames) THEN <<>>
            ELSE LET name == SortedNames[i]
                 IN  (IF name \in DOMAIN node.children
                      THEN (IF StartsWithDollar(name)
                            THEN <<WarnReserved, WarnRename(name)>>
                            ELSE <<>>)
                               \o validate_reserved_names(node.children[name])
                      ELSE <<>>)
                         \o Loop(i + 1)
    IN  Loop(1)

check_compatibility(project) == validate_reserved_names(project.tree)


(***************************************************************************)
(* Paths and the filesystem.                                               *)
(***************************************************************************)
PROJECT_FILENAME == <<"default", ".project", ".json">>

ProjectSuffix == <<".project", ".json">>

NameD == <<"d">>

RootPath == PathOf(TRUE, <<>>)

\* The places of the filesystem, below the root (which is the working directory).
FsPaths == {<<PROJECT_FILENAME>>, <<NameD>>, <<NameD, PROJECT_FILENAME>>}

\* dir_nosearch: a directory without search permission, whose entries cannot
\* be looked up; file_noread: a regular file that cannot be opened for reading.
Entries == {"missing", "dir", "dir_nosearch", "file", "file_noread"}

Dirs == {"dir", "dir_nosearch"}

Files == {"file", "file_noread"}

Entry(f, r) == IF r \in DOMAIN f THEN f[r] ELSE "missing"

Front(r) == SubSeq(r, 1, Len(r) - 1)

RECURSIVE Reachable(_, _)

\* Every directory on the way to r exists and can be searched.
Reachable(f, r) ==
    \/ Len(r) <= 1
    \/ Entry(f, Front(r)) = "dir" /\ Reachable(f, Front(r))

\* fs::metadata: "err", or the type of what the path names.
metadata(f, path) ==
    IF path = UnsetPath THEN "err"
    ELSE IF path.comps = <<>> THEN "dir"
    ELSE IF ~Reachable(f, path.comps) THEN "err"
    ELSE LET e == Entry(f, path.comps)
         IN  IF e \in Dirs THEN "dir" ELSE IF e \in Files THEN "file" ELSE "err"

\* fs::read_to_string of a file that holds c.
read_to_string(f, path, c) ==
    IF /\ path # UnsetPath
       /\ path.comps # <<>>
       /\ Reachable(f, path.comps)
       /\ Entry(f, path.comps) = "file"
       /\ c.form # "binary"
    THEN Done(c)
    ELSE Fail(NoContents)

NoName == [some |-> FALSE, v |-> <<>>]

\* Path::file_name
file_name(path) ==
    IF path.comps = <<>> THEN NoName
    ELSE [some |-> TRUE, v |-> path.comps[Len(path.comps)]]

NoPath == [some |-> FALSE, v |-> UnsetPath]

SomePath(path) == [some |-> TRUE, v |-> path]

\* Path::parent
parent(path) ==
    IF path.comps = <<>> THEN NoPath
    ELSE SomePath(PathOf(path.abs, Front(path.comps)))

\* Path::join with a relative name
join(path, name) == PathOf(path.abs, Append(path.comps, name))

\* str::ends_with
ends_with(name, suffix) ==
    /\ Len(name) >= Len(suffix)
    /\ SubSeq(name, Len(name) - Len(suffix) + 1, Len(name)) = suffix

\* A changed is_project_file: any .json file.
is_project_file_AnyJson(path) ==
    IF file_name(path).some THEN ends_with(file_name(path).v, <<".json">>) ELSE FALSE

is_project_file(path) ==
    IF file_name(path).some THEN ends_with(file_name(path).v, ProjectSuffix) ELSE FALSE

\* A changed locate: the child is not asked whether it is a file.
locate_ChildAnyKind(f, path) ==
    LET meta == metadata(f, path)
    IN  IF meta = "err" THEN NoPath
        ELSE IF meta = "file"
             THEN (IF is_project_file(path) THEN SomePath(path) ELSE NoPath)
        ELSE LET child_path == join(path, PROJECT_FILENAME)
                 child_meta == metadata(f, child_path)
             IN  IF child_meta = "err" THEN NoPath ELSE SomePath(child_path)

\* A changed locate: a regular file is not asked whether it is a project file.
locate_AnyFile(f, path) ==
    LET meta == metadata(f, path)
    IN  IF meta = "err" THEN NoPath
        ELSE IF meta = "file" THEN SomePath(path)
        ELSE LET child_path == join(path, PROJECT_FILENAME)
                 child_meta == metadata(f, child_path)
             IN  IF child_meta = "err" THEN NoPath
                 ELSE IF child_meta = "file" THEN SomePath(child_path)
                 ELSE NoPath

\* A changed locate: the directory is returned, not the file in it.
locate_ReturnsDirectory(f, path) ==
    LET meta == metadata(f, path)
    IN  IF meta = "err" THEN NoPath
        ELSE IF meta = "file"
             THEN (IF is_project_file(path) THEN SomePath(path) ELSE NoPath)
        ELSE LET child_path == join(path, PROJECT_FILENAME)
                 child_meta == metadata(f, child_path)
             IN  IF child_meta = "err" THEN NoPath
                 ELSE IF child_meta = "file" THEN SomePath(path)
                 ELSE NoPath

locate(f, path) ==
    LET meta == metadata(f, path)
    IN  IF meta = "err" THEN NoPath
        ELSE IF meta = "file"
             THEN (IF is_project_file(path) THEN SomePath(path) ELSE NoPath)
        ELSE LET child_path == join(path, PROJECT_FILENAME)
                 child_meta == metadata(f, child_path)
             IN  IF child_meta = "err" THEN NoPath
                 ELSE IF child_meta = "file" THEN SomePath(child_path)
                 ELSE NoPath

(***************************************************************************)
(* Results: Result<Option<Project>, ProjectError>, and for load_from_slice *)
(* Result<Project, serde_json::Error>, whose error carries no path.        *)
(***************************************************************************)
NoResult == [kind |-> "none", path |-> UnsetPath, project |-> DefaultProject]

OkNone == [kind |-> "ok_none", path |-> UnsetPath, project |-> DefaultProject]

OkSome(project) == [kind |-> "ok_some", path |-> UnsetPath, project |-> project]

ErrIo(path) == [kind |-> "err_io", path |-> path, project |-> DefaultProject]

ErrJson(path) == [kind |-> "err_json", path |-> path, project |-> DefaultProject]

Outcome(res, lines) == [result |-> res, log |-> lines]

\* A changed load_from_slice: file_location is not assigned.
load_from_slice_NoStamp(c, project_file_location) ==
    LET parsed == from_slice(c)
        project == parsed.val
    IN  IF ~parsed.ok THEN Outcome(ErrJson(UnsetPath), <<>>)
        ELSE Outcome(OkSome(project), check_compatibility(project))

load_from_slice(c, project_file_location) ==
    LET parsed == from_slice(c)
        project == [parsed.val EXCEPT !.file_location = project_file_location]
    IN  IF ~parsed.ok THEN Outcome(ErrJson(UnsetPath), <<>>)
        ELSE Outcome(OkSome(project), check_compatibility(project))

\* A changed load_exact: a failed read is taken for "no project here".
load_exact_SwallowsIo(f, project_file_location, c) ==
    LET read == read_to_string(f, project_file_location, c)
        parsed == from_str(read.val)
        project == [parsed.val EXCEPT !.file_location = project_file_location]
    IN  IF ~read.ok THEN Outcome(OkNone, <<>>)
        ELSE IF ~parsed.ok THEN Outcome(ErrJson(project_file_location), <<>>)
        ELSE Outcome(OkSome(project), check_compatibility(project))

load_exact(f, project_file_location, c) ==
    LET read == read_to_string(f, project_file_location, c)
        parsed == from_str(read.val)
        project == [parsed.val EXCEPT !.file_location = project_file_location]
    IN  IF ~read.ok THEN Outcome(ErrIo(project_file_location), <<>>)
        ELSE IF ~parsed.ok THEN Outcome(ErrJson(project_file_location), <<>>)
        ELSE Outcome(OkSome(project), check_compatibility(project))

\* Project::folder_location: the unwrap panics on None.
folder_location(project) == parent(project.file_location)

(***************************************************************************)
(* The state machine.  load_fuzzy runs in two steps, and the filesystem    *)
(* can change between its metadata lookups and its read.                   *)
(***************************************************************************)
\* The paths load_fuzzy is called with: /, /default.project.json, /d,
\* /d/default.project.json, the empty path and the relative default.project.json.
FuzzyArgs ==
    {RootPath, UnsetPath, PathOf(FALSE, <<PROJECT_FILENAME>>)}
        \cup {PathOf(TRUE, r) : r \in FsPaths}

\* The locations load_from_slice is called with.
SliceArgs == {UnsetPath, PathOf(TRUE, <<PROJECT_FILENAME>>), PathOf(FALSE, <<NameD>>)}

EmptyFs == [r \in FsPaths |-> "missing"]

\* A project file at the root, and one in /d that cannot be read.
FixedFs ==
    (<<PROJECT_FILENAME>> :> "file") @@ (<<NameD>> :> "dir")
        @@ (<<NameD, PROJECT_FILENAME>> :> "file_noread")

Idle(f) ==
    /\ fs = f
    /\ pc = "idle"
    /\ op = "none"
    /\ arg = UnsetPath
    /\ located = NoPath
    /\ contents = NoContents
    /\ result = NoResult
    /\ log = <<>>
    /\ nread = 0

Init == Idle(EmptyFs)

InitParse == Idle(FixedFs)

\* load_fuzzy is called: locate runs, and "no project here" returns at once.
LoadFuzzyLocate ==
    /\ pc = "idle"
    /\ \E path \in FuzzyArgs :
          LET found == locate(fs, path)
          IN  /\ op' = "fuzzy"
              /\ arg' = path
              /\ located' = found
              /\ IF found.some
                 THEN pc' = "load_exact" /\ result' = NoResult
                 ELSE pc' = "done" /\ result' = OkNone
    /\ UNCHANGED <<fs, contents, log, nread>>

\* load_fuzzy goes on with load_exact of the located path; the file holds c.
LoadFuzzyExact(C) ==
    /\ pc = "load_exact"
    /\ \E c \in C :
          LET out == load_exact(fs, located.v, c)
          IN  /\ contents' = read_to_string(fs, located.v, c).val
              /\ result' = out.result
              /\ log' = out.log
    /\ nread' = nread + 1
    /\ pc' = "done"
    /\ UNCHANGED <<fs, op, arg, located>>

LoadFromSlice(C) ==
    /\ pc = "idle"
    /\ \E c \in C, loc \in SliceArgs :
          LET out == load_from_slice(c, loc)
          IN  /\ op' = "slice"
              /\ arg' = loc
              /\ contents' = c
              /\ result' = out.result
              /\ log' = out.log
    /\ pc' = "done"
    /\ UNCHANGED <<fs, located, nread>>

\* The caller takes the result.
Return ==
    /\ pc = "done"
    /\ pc' = "idle"
    /\ op' = "none"
    /\ arg' = UnsetPath
    /\ located' = NoPath
    /\ contents' = NoContents
    /\ result' = NoResult
    /\ log' = <<>>
    /\ nread' = 0
    /\ UNCHANGED fs

\* Another process creates, removes or changes the permissions of an entry, in
\* a directory it can search; a directory is emptied before it goes.
Mutate ==
    /\ \E r \in FsPaths, e \in Entries :
          /\ e # fs[r]
          /\ Len(r) = 1 \/ Entry(fs, Front(r)) = "dir"
          /\ e \notin Dirs => \A q \in FsPaths : (Len(q) > 1 /\ Front(q) = r) => fs[q] = "missing"
          /\ fs' = [fs EXCEPT ![r] = e]
    /\ UNCHANGED <<pc, op, arg, located, contents, result, log, nread>>

Next ==
    \/ LoadFuzzyLocate
    \/ LoadFuzzyExact(FileContents)
    \/ LoadFromSlice(FileContents)
    \/ Return
    \/ Mutate

Spec == Init /\ [][Next]_vars

NextParse ==
    \/ LoadFuzzyLocate
    \/ LoadFuzzyExact(SliceContents)
    \/ LoadFromSlice(SliceContents)
    \/ Return

SpecParse == InitParse /\ [][NextParse]_vars
(***************************************************************************)
(* What the properties are stated with: the filesystem as it is, without   *)
(* the lookups of the code, and the document as it was written.            *)
(***************************************************************************)
\* What a path names: "missing", "dir" or "file", whatever the permissions.
Kind(f, path) ==
    IF path = UnsetPath THEN "missing"
    ELSE IF path.comps = <<>> THEN "dir"
    ELSE LET e == Entry(f, path.comps)
         IN  IF e \in Dirs THEN "dir" ELSE IF e \in Files THEN "file" ELSE "missing"

\* A directory on the way to the path refuses the lookup.
LookupDenied(f, path) ==
    \E i \in 1 .. (Len(path.comps) - 1) : Entry(f, SubSeq(path.comps, 1, i)) = "dir_nosearch"

\* The name is some prefix followed by .project.json
HasProjectSuffix(name) == \E i \in 0 .. Len(name) : name = SubSeq(name, 1, i) \o ProjectSuffix

ChildOf(path) == PathOf(path.abs, path.comps \o <<PROJECT_FILENAME>>)

\* The step of load_fuzzy in which locate runs.
LocateStep == pc = "idle" /\ op' = "fuzzy"

\* The step of load_fuzzy in which load_exact runs.
ExactStep == pc = "load_exact" /\ pc' = "done"

NoProjectHere ==
    /\ pc' = "done"
    /\ ~located'.some
    /\ result' = OkNone
    /\ nread' = 0
    /\ contents' = NoContents

\* C1, as claimed: for every path that names an existing directory, locate
\* returns <dir>/default.project.json if and only if that child exists and is a
\* regular file, and otherwise returns nothing without an error.
C1_AsClaimed ==
    [][(LocateStep /\ Kind(fs, arg') = "dir")
          => IF Kind(fs, ChildOf(arg')) = "file"
             THEN located' = SomePath(ChildOf(arg'))
             ELSE NoProjectHere]_vars

\* C1, amended: the same, for a directory whose entries can be looked up (the
\* metadata lookup of the child does not fail for want of permission); where
\* the lookup is refused, locate returns nothing without an error.
C1_LocateInDirectory ==
    [][(LocateStep /\ Kind(fs, arg') = "dir")
          => IF Kind(fs, ChildOf(arg')) = "file" /\ ~LookupDenied(fs, ChildOf(arg'))
             THEN located' = SomePath(ChildOf(arg'))
             ELSE NoProjectHere]_vars

C1_Witness ==
    /\ pc = "load_exact"
    /\ Kind(fs, arg) = "dir"
    /\ arg.comps # <<>>
    /\ located = SomePath(ChildOf(arg))

NamesWithSuffix ==
    {pre \o ProjectSuffix : pre \in {<<>>, <<"default">>, <<"a", ".b">>, <<".project", ".json">>}}

NamesWithoutSuffix ==
    {<<"project", ".json">>, <<".project">>, <<".json">>, <<".project", ".json", ".bak">>,
     <<".json", ".project">>, NameD}

Folders == {<<>>, <<NameD>>, <<NameD, NameD>>, <<PROJECT_FILENAME>>}

\* is_project_file looks at the file name only, wherever the path leads and
\* whether or not anything is there.
ByNameOnly ==
    /\ \A abs \in BOOLEAN, dir \in Folders :
          /\ \A n \in NamesWithSuffix : is_project_file(PathOf(abs, Append(dir, n)))
          /\ \A n \in NamesWithoutSuffix : ~is_project_file(PathOf(abs, Append(dir, n)))
    /\ ~is_project_file(RootPath)
    /\ ~is_project_file(UnsetPath)

\* C2, as claimed: for every path that names an existing regular file, locate
\* returns that same path if and only if the file name ends with .project.json
\* (is_project_file, which looks at the name only), and nothing otherwise.
C2_AsClaimed ==
    [][(LocateStep /\ Kind(fs, arg') = "file")
          => /\ ByNameOnly
             /\ IF HasProjectSuffix(arg'.comps[Len(arg'.comps)])
                THEN located' = SomePath(arg')
                ELSE NoProjectHere]_vars

\* C2, amended: the same, for a regular file whose metadata lookup succeeds;
\* where a directory on the way refuses the lookup, locate returns nothing.
C2_LocateRegularFile ==
    [][(LocateStep /\ Kind(fs, arg') = "file")
          => /\ ByNameOnly
             /\ IF HasProjectSuffix(arg'.comps[Len(arg'.comps)]) /\ ~LookupDenied(fs, arg')
                THEN located' = SomePath(arg')
                ELSE NoProjectHere]_vars

C2_Witness ==
    /\ pc = "load_exact"
    /\ Kind(fs, arg) = "file"
    /\ Len(arg.comps) = 2
    /\ located = SomePath(arg)

\* The cases in which there is nothing to locate.
NothingToLocate(f, path) ==
    \/ Kind(f, path) = "missing"
    \/ LookupDenied(f, path)
    \/ Kind(f, path) = "file" /\ ~HasProjectSuffix(path.comps[Len(path.comps)])
    \/ Kind(f, path) = "dir"
          /\ (Kind(f, ChildOf(path)) # "file" \/ LookupDenied(f, ChildOf(path)))

\* C3: whenever locate finds nothing (the path does not exist, a metadata lookup
\* on it or on the candidate child fails, the file is no project file, the
\* directory has no regular default.project.json), load_fuzzy returns Ok(None),
\* never an error, and reads no file.
C3_NothingFoundIsOkNone ==
    [][(LocateStep /\ (NothingToLocate(fs, arg') \/ ~located'.some)) => NoProjectHere]_vars

C3_Witness ==
    /\ pc = "done"
    /\ op = "fuzzy"
    /\ result = OkNone
    /\ Kind(fs, arg) = "dir"
    /\ Kind(fs, ChildOf(arg)) = "file"
    /\ LookupDenied(fs, ChildOf(arg))

\* The file can be read as text: it is a regular file, readable, in a
\* directory that can be searched.
Readable(f, path) ==
    /\ Kind(f, path) = "file"
    /\ Entry(f, path.comps) = "file"
    /\ ~LookupDenied(f, path)

\* C4: once locate has returned a path, a failed read (the file may have gone or
\* become unreadable since) is an IO error carrying that path, content that does
\* not parse is a parse error carrying that path, neither is Ok(None) or
\* Ok(Some(project)), and the file is read once.
C4_StrictLoadFailuresPropagate ==
    [][ExactStep
          => /\ nread' = nread + 1
             /\ nread' = 1
             /\ located' = located
             /\ ~Readable(fs, located.v) => result' = ErrIo(located.v)
             /\ contents' = NoContents => result' = ErrIo(located.v)
             /\ (contents' # NoContents /\ ~from_str(contents').ok)
                   => result' = ErrJson(located.v)
             /\ result'.kind \in {"ok_some", "err_io", "err_json"}
             /\ result'.kind = "ok_some"
                   => Readable(fs, located.v) /\ from_str(contents').ok]_vars

C4_Witness ==
    /\ pc = "done"
    /\ op = "fuzzy"
    /\ located.some
    /\ result = ErrIo(located.v)
    /\ Kind(fs, located.v) = "missing"

\* C5: every Project handed to a caller has its file_location set: to the path
\* locate returned when load_fuzzy returns it, to the location argument when
\* load_from_slice does; the value serde leaves there is never what a load
\* returns without assigning it.
C5_FileLocationStamped ==
    result.kind = "ok_some"
        => /\ op = "fuzzy"
                => /\ located.some
                   /\ result.project.file_location = located.v
                   /\ result.project.file_location # UnsetPath
           /\ op = "slice" => result.project.file_location = arg

C5_Witness ==
    /\ pc = "done"
    /\ op = "slice"
    /\ result.kind = "ok_some"
    /\ arg = PathOf(TRUE, <<PROJECT_FILENAME>>)
\* What $ignoreUnknownInstances comes to for a node: the value given, and where
\* none is given, true without $path and false with it.
ignore_unknown_instances_or_default(node) ==
    IF node.ignore_unknown_instances.some
    THEN node.ignore_unknown_instances.v
    ELSE ~node.path.some

Given(j, k) == k \in DOMAIN j.m /\ j.m[k].t # "null"

RECURSIVE DefaultsAgree(_, _)

\* The node, and every node below it, has the value its JSON object asks for.
DefaultsAgree(j, node) ==
    LET eff == ignore_unknown_instances_or_default(node)
    IN  /\ Given(j, KIgnoreUnknownInstances) => eff = (j.m[KIgnoreUnknownInstances].t = "true")
        /\ (~Given(j, KIgnoreUnknownInstances) /\ ~Given(j, KPath)) => eff = TRUE
        /\ (~Given(j, KIgnoreUnknownInstances) /\ Given(j, KPath)) => eff = FALSE
        /\ DOMAIN node.children = (DOMAIN j.m) \ NodeFields
        /\ \A k \in DOMAIN node.children : DefaultsAgree(j.m[k], node.children[k])

\* C6: for every parsed ProjectNode, ignoreUnknownInstances is true when unset
\* and path is absent, false when unset and path is present, and the explicit
\* value whenever one is given.
C6_IgnoreUnknownDefault ==
    result.kind = "ok_some" => DefaultsAgree(contents.json.m[KTree], result.project.tree)

C6_Witness ==
    /\ pc = "done"
    /\ result.kind = "ok_some"
    /\ result.project.tree.path.some
    /\ ~result.project.tree.ignore_unknown_instances.some
    /\ ~ignore_unknown_instances_or_default(result.project.tree)
    /\ \E k \in DOMAIN result.project.tree.children :
          /\ ~result.project.tree.children[k].ignore_unknown_instances.some
          /\ ~result.project.tree.children[k].path.some
          /\ ignore_unknown_instances_or_default(result.project.tree.children[k])

RECURSIVE EveryNodeTyped(_)

EveryNodeTyped(node) ==
    /\ node.class_name.some \/ node.path.some
    /\ \A k \in DOMAIN node.children : EveryNodeTyped(node.children[k])

\* C7: no load returns a Project whose tree holds, at any depth, a node with
\* neither a className nor a path.
C7_EveryNodeTyped == result.kind = "ok_some" => EveryNodeTyped(result.project.tree)

RECURSIVE Occurrences(_, _), OccurrencesIn(_, _, _)

\* How often name is the key of a child in the JSON object j, at any depth.
Occurrences(j, name) ==
    IF j.t # "obj" THEN 0 ELSE OccurrencesIn((DOMAIN j.m) \ NodeFields, j, name)

OccurrencesIn(keys, j, name) ==
    IF keys = {} THEN 0
    ELSE LET k == CHOOSE kk \in keys : TRUE
         IN  (IF k = name THEN 1 ELSE 0) + Occurrences(j.m[k], name)
                 + OccurrencesIn(keys \ {k}, j, name)

Named(name) == Cardinality({i \in 1 .. Len(log) : log[i] = WarnRename(name)})

\* C8: on every load of a document that parses, validation covers the whole
\* tree: each child key starting with '$', at any depth and also below another
\* such key, gets a diagnostic naming it, no other key gets one, the load
\* succeeds, and the tree returned is the tree as parsed.
C8_ReservedNamesDiagnosed ==
    (pc = "done" /\ contents # NoContents)
        => IF from_slice(contents).ok
           THEN /\ result.kind = "ok_some"
                /\ result.project.tree = DeserializeNode(contents.json.m[KTree]).val
                /\ \A name \in ChildNames :
                      Named(name) = IF name[1] = "$"
                                    THEN Occurrences(contents.json.m[KTree], name)
                                    ELSE 0
                /\ \A i \in 1 .. Len(log) :
                      IF i % 2 = 1 THEN log[i] = WarnReserved
                      ELSE \E name \in ChildNames : log[i] = WarnRename(name)
           ELSE log = <<>>

C8_Witness ==
    /\ pc = "done"
    /\ result.kind = "ok_some"
    /\ KDollarFoo \in DOMAIN result.project.tree.children
    /\ KDollarFoo \in DOMAIN result.project.tree.children[KDollarFoo].children
    /\ Named(KDollarFoo) = 2

C10_FolderLocationDefined ==
    (op = "fuzzy" /\ located.some)
        => /\ parent(located.v).some
           /\ \/ located.v = arg /\ HasProjectSuffix(arg.comps[Len(arg.comps)])
              \/ located.v = ChildOf(arg)
           /\ result.kind = "ok_some"
                 => /\ folder_location(result.project).some
                    /\ folder_location(result.project) = parent(located.v)

C10_Witness ==
    /\ pc = "done"
    /\ op = "fuzzy"
    /\ result.kind = "ok_some"
    /\ arg = RootPath
    /\ folder_location(result.project) = SomePath(RootPath)
====
